---- MODULE Spec2Model ----
(***************************************************************************)
(* LEDC timer driver of esp-hal-common (ledc/timer.rs, ledc/mod.rs).       *)
(*                                                                         *)
(* State: the Timer handles issued by LEDC::get_timer, the per-timer       *)
(* configuration registers of both speed domains, and a record of the      *)
(* last driver call (its inputs, its result, the divisors it computed and  *)
(* the register writes it issued, in order).  Channel::configure, whose     *)
(* source file is not part of the sources at hand, follows the             *)
(* specification.                                                          *)
(*                                                                         *)
(* The divisor is a u64 in the driver; it is kept here in two limbs and     *)
(* divided by binary long division, so that values above 2^31              *)
(* (80 MHz << 8 is 20,480,000,000) are computed exactly.                   *)
(***************************************************************************)
EXTENDS Integers, Sequences, FiniteSets, TLC

\* ------------------------------------------------------------------ bounds
MaxSteps == 3
MaxHandles == 2

\* --------------------------------------------------------------- inputs
Chips == {"esp32", "esp32c3"}
SourceFreqs == {80000000, 40000000}
Duties == {1, 5, 14}
Freqs == {0, 1, 8, 1000, 24000, 4000000}
Numbers == 0 .. 3
\* source clocks that put the primary divisor on and just above 0x3FFFF
BoundaryFreqs == {262143, 262144}

\* ------------------------------------------------------------ u64 values
\* A u64 is kept as two limbs, value = hi * Limb + lo with lo < Limb = 2^30,
\* so that no intermediate exceeds a 32-bit signed integer.  Every u64 of
\* configure is a widened u32 shifted left by 8, or a quotient of one, so hi
\* stays below 2^10.
Limb == 1073741824

\* `x as u64` for a u32 x (x < 2^31 here)
AsU64(x) == [hi |-> x \div Limb, lo |-> x % Limb]

\* `a << 8` on u64, a a widened u32 (no bit is shifted out of the u64)
Shl8(a) ==
    [hi |-> a.hi * 256 + a.lo \div (Limb \div 256),
     lo |-> (a.lo % (Limb \div 256)) * 256]

\* a < b on u64
LtU64(a, b) == a.hi < b.hi \/ (a.hi = b.hi /\ a.lo < b.lo)

GtU64(a, b) == LtU64(b, a)
GeU64(a, b) == ~LtU64(a, b)

\* Digits of the long division: the largest of 2^15, 2^6 and 2 for which
\* d * Radix(d) stays below 2^31 (d < 2^30).
Radix(d) == IF d < 65536 THEN 32768 ELSE IF d < 33554432 THEN 64 ELSE 2

\* Long division of (r * Limb + lo) by d, r < d, in digits of radix R: the
\* digits of lo from weight w downwards are brought down one at a time; q
\* collects the quotient.
RECURSIVE DivLow(_, _, _, _, _, _)
DivLow(r, lo, d, R, w, q) ==
    IF w = 0 THEN q
    ELSE LET cur == (r * R) + ((lo \div w) % R)
         IN DivLow(cur % d, lo, d, R, w \div R, (q * R) + (cur \div d))

\* `a / d` on u64, 0 < d < 2^30
DivU64(a, d) ==
    [hi |-> a.hi \div d,
     lo |-> DivLow(a.hi % d, a.lo, d, Radix(d), Limb \div Radix(d), 0)]

RECURSIVE Pow2(_)
Pow2(n) == IF n = 0 THEN 1 ELSE 2 * Pow2(n - 1)

\* the low w bits of a as a number (w <= 30)
LowBits(a, w) == a.lo % Pow2(w)

\* `a as u32`: the low 32 bits
AsU32(a) == [hi |-> a.hi % 4, lo |-> a.lo]

\* ------------------------------------------------------------- constants
LEDC_TIMER_DIV_NUM_MAX == AsU64(262143)
REF_TICK_HZ == 1000000
DIV_MIN == AsU64(256)

None == <<>>
Some(x) == <<x>>
Unwrap(o) == o[1]

\* --------------------------------------------------------------- timer.rs
Speeds(c) == IF c = "esp32" THEN {"LowSpeed", "HighSpeed"} ELSE {"LowSpeed"}

ClockSources(speed) == {"APBClk"}

new_StaleDuty(speed, number) ==
    [speed |-> speed, number |-> number, duty |-> Some(1), frequency |-> 0,
     configured |-> FALSE, use_ref_tick |-> FALSE, clock_source |-> None]

new_Configured(speed, number) ==
    [speed |-> speed, number |-> number, duty |-> None, frequency |-> 0,
     configured |-> TRUE, use_ref_tick |-> FALSE, clock_source |-> None]

\* Timer::new
new(speed, number) ==
    [speed |-> speed, number |-> number, duty |-> None, frequency |-> 0,
     configured |-> FALSE, use_ref_tick |-> FALSE, clock_source |-> None]

\* TimerHW::get_freq_hw (both speed domains map APBClk to clocks.apb_clock)
get_freq_hw(t, apb_clock) ==
    IF t.clock_source = None THEN None ELSE Some(apb_clock)

get_freq(t, apb_clock) == get_freq_hw(t, apb_clock)

is_configured_Always(t) == TRUE

is_configured(t) == t.configured
get_duty(t) == t.duty
get_number(t) == t.number
get_frequency(t) == t.frequency

Divisor_NoShift(src, frequency, precision) ==
    DivU64(DivU64(AsU64(src), frequency), precision)

\* ((src as u64) << 8) / frequency as u64 / precision as u64
Divisor(src, frequency, precision) ==
    DivU64(DivU64(Shl8(AsU64(src)), frequency), precision)

StoreConfig_NoClockSource(t, config) ==
    [t EXCEPT !.duty = Some(config.duty)]

StoreConfig_Resetting(t, config) ==
    [t EXCEPT !.duty = Some(config.duty),
              !.clock_source = Some(config.clock_source),
              !.configured = FALSE]

\* self.duty = Some(config.duty); self.clock_source = Some(config.clock_source)
StoreConfig(t, config) ==
    [t EXCEPT !.duty = Some(config.duty),
              !.clock_source = Some(config.clock_source)]

StoreFrequency_OnlyFirst(t, frequency) ==
    IF t.frequency = 0 THEN [t EXCEPT !.frequency = frequency] ELSE t

\* self.frequency = frequency
StoreFrequency(t, frequency) == [t EXCEPT !.frequency = frequency]

NeedsFallback_Inclusive(divisor) == GeU64(divisor, LEDC_TIMER_DIV_NUM_MAX)

\* if divisor > LEDC_TIMER_DIV_NUM_MAX
NeedsFallback(divisor) == GtU64(divisor, LEDC_TIMER_DIV_NUM_MAX)

SetRefTick_Forgotten(t) == t

\* self.use_ref_tick = true
SetRefTick(t) == [t EXCEPT !.use_ref_tick = TRUE]

DivisorInvalid_LowerFlipped(divisor) ==
    GeU64(divisor, LEDC_TIMER_DIV_NUM_MAX) \/ GeU64(divisor, DIV_MIN)

DivisorInvalid_NoLowerBound(divisor) ==
    GeU64(divisor, LEDC_TIMER_DIV_NUM_MAX)

\* if divisor >= LEDC_TIMER_DIV_NUM_MAX || divisor < 256
DivisorInvalid(divisor) ==
    GeU64(divisor, LEDC_TIMER_DIV_NUM_MAX) \/ LtU64(divisor, DIV_MIN)

\* self.configured = true
MarkConfigured(t) == [t EXCEPT !.configured = TRUE]

\* ------------------------------------------------------------- registers
RegKeys(c) == Speeds(c) \X Numbers

\* value of a timer configuration register before the driver touches it
ResetConf ==
    [tick_sel |-> FALSE, rst |-> TRUE, pause |-> FALSE, div |-> 0,
     duty_res |-> 0, para_up |-> FALSE]

RegOf_Timer0(t) == <<t.speed, 0>>

\* match self.number: the conf register of this timer's speed and number
RegOf(t) == <<t.speed, t.number>>

\* the tick_sel bit each configure_hw variant writes
TickSel(c, t) ==
    IF t.speed = "HighSpeed" THEN t.clock_source = Some("APBClk")
    ELSE IF c = "esp32" THEN ~t.use_ref_tick
    ELSE t.use_ref_tick

\* what a tick_sel bit selects: the low-speed esp32 variant writes use_apb
\* (= !use_ref_tick), the other low-speed variant writes use_ref_tick, the
\* high-speed variant writes sel_hstimer (the APB clock is selected)
SelectsRefTick(c, speed, bit) ==
    IF speed = "HighSpeed" THEN ~bit
    ELSE IF c = "esp32" THEN ~bit
    ELSE bit

\* TimerHW::configure_hw: one modify() of the timer's conf register that
\* writes tick_sel, div and duty_res and clears rst and pause.  arg is the
\* u32 the caller passed; the div field takes its low 18 bits.
configure_hw(c, t, divisor) ==
    <<[kind |-> "conf", reg |-> RegOf(t), arg |-> divisor,
       tick_sel |-> TickSel(c, t), div |-> LowBits(divisor, 18),
       duty_res |-> Unwrap(t.duty) % 256]>>

\* a modify() that sets para_up in the conf register of timer `reg`
ParaUp(reg) ==
    [kind |-> "para_up", reg |-> reg, arg |-> AsU64(0),
     tick_sel |-> FALSE, div |-> 0, duty_res |-> 0]

update_hw_Nothing(t) == <<>>

\* TimerHW::update_hw: para_up on low speed, nothing on high speed
update_hw(t) == IF t.speed = "LowSpeed" THEN <<ParaUp(RegOf(t))>> ELSE <<>>

\* the effect of one modify() on the register file
Write(hw, w) ==
    IF w.kind = "conf"
    THEN [hw EXCEPT ![w.reg] =
            [@ EXCEPT !.tick_sel = w.tick_sel, !.rst = FALSE,
                      !.pause = FALSE, !.div = w.div,
                      !.duty_res = w.duty_res]]
    ELSE IF w.kind = "para_up"
    THEN [hw EXCEPT ![w.reg] = [@ EXCEPT !.para_up = TRUE]]
    ELSE hw

RECURSIVE ApplyWrites(_, _)
ApplyWrites(hw, ws) ==
    IF ws = <<>> THEN hw ELSE ApplyWrites(Write(hw, Head(ws)), Tail(ws))

\* trace entry for `self.configured = true`
MarkEvent(t) ==
    [kind |-> "configured", reg |-> RegOf(t), arg |-> AsU64(0),
     tick_sel |-> FALSE, div |-> 0, duty_res |-> 0]

\* ------------------------------------------------------ Timer::configure
Finish_WriteBeforeCheck(c, t, divisor) ==
    IF get_duty(t) = None
    THEN [result |-> "Panic", panic |-> "duty", timer |-> t, trace |-> <<>>]
    ELSE IF DivisorInvalid(divisor)
    THEN [result |-> "Err", panic |-> "none", timer |-> t,
          trace |-> configure_hw(c, t, AsU32(divisor)) \o update_hw(t)]
    ELSE [result |-> "Ok", panic |-> "none",
          timer |-> MarkConfigured(t),
          trace |-> configure_hw(c, t, AsU32(divisor)) \o update_hw(t)
                      \o <<MarkEvent(t)>>]

\* The end of configure: the range check, then the two hardware calls and
\* the configured flag.  trace lists what was done, in order.  configure_hw
\* starts with self.duty.unwrap(), which panics on None.
Finish(c, t, divisor) ==
    IF DivisorInvalid(divisor)
    THEN [result |-> "Err", panic |-> "none", timer |-> t, trace |-> <<>>]
    ELSE IF get_duty(t) = None
    THEN [result |-> "Panic", panic |-> "duty", timer |-> t, trace |-> <<>>]
    ELSE [result |-> "Ok", panic |-> "none",
          timer |-> MarkConfigured(t),
          trace |-> configure_hw(c, t, AsU32(divisor)) \o update_hw(t)
                      \o <<MarkEvent(t)>>]

\* The whole call on timer t with the clocks' apb_clock.  calc lists the
\* divisor computations made, in order.
configure(c, t, apb, config) ==
    LET t1 == StoreConfig(t, config)
        src == get_freq(t1, apb)
        frequency == config.frequency
        precision == Pow2(config.duty)
        t2 == StoreFrequency(t1, frequency)
    IN
    IF src = None \/ frequency = 0
    THEN \* unwrap() of None, or division by zero: the call panics
         [result |-> "Panic",
          panic |-> IF src = None THEN "clock_source" ELSE "division",
          timer |-> IF src = None THEN t1 ELSE t2,
          calc |-> <<>>, trace |-> <<>>]
    ELSE
    LET primary == Divisor(Unwrap(src), frequency, precision)
        retry == NeedsFallback(primary)
        t3 == IF retry THEN SetRefTick(t2) ELSE t2
        divisor == IF retry THEN Divisor(REF_TICK_HZ, frequency, precision)
                   ELSE primary
        calc == IF retry
                THEN <<[src |-> Unwrap(src), divisor |-> primary],
                       [src |-> REF_TICK_HZ, divisor |-> divisor]>>
                ELSE <<[src |-> Unwrap(src), divisor |-> primary]>>
        fin == Finish(c, t3, divisor)
    IN [result |-> fin.result, panic |-> fin.panic, timer |-> fin.timer,
        calc |-> calc, trace |-> fin.trace]

\* ------------------------------------------------------------ Channel
\* Channel::configure as the specification describes it (section 4.2, 7):
\* binding to a Timer that is not configured, or has no duty resolution,
\* is the recoverable NotConfigured error and writes nothing; otherwise
\* the duty value is clamped to the timer's resolution, written to the
\* channel's duty field, and the channel's output is enabled.
ChannelNumbers == {0, 1}
DutyValues == {10}

ResetChannel ==
    [timer |-> None, duty_value |-> 0, hw_duty |-> 0, out_en |-> FALSE]

ScaleDuty(duty_value, bits) ==
    IF duty_value > Pow2(bits) - 1 THEN Pow2(bits) - 1 ELSE duty_value

ChannelWrite(kind, n, value) ==
    [kind |-> kind, reg |-> <<"Channel", n>>, arg |-> AsU64(0),
     tick_sel |-> FALSE, div |-> value, duty_res |-> 0]

channel_configure(ch, n, t, h, duty_value) ==
    IF ~is_configured(t) \/ get_duty(t) = None
    THEN [result |-> "NotConfigured", channel |-> ch, trace |-> <<>>]
    ELSE LET d == ScaleDuty(duty_value, Unwrap(get_duty(t)))
         IN [result |-> "Ok",
             channel |-> [timer |-> Some(h), duty_value |-> duty_value,
                          hw_duty |-> d, out_en |-> TRUE],
             trace |-> <<ChannelWrite("ch_duty", n, d),
                         ChannelWrite("ch_out_en", n, 1)>>]

\* ------------------------------------------------------------------ state
VARIABLES
    chip,        \* the build target
    apb_clock,   \* clocks.apb_clock, frozen at boot
    timers,      \* the Timer handles issued so far
    regs,        \* timer configuration registers, by <<speed, number>>
    apb_clk_sel, \* global slow clock select written by set_global_slow_clock
    last,        \* the last driver call
    lastOk,      \* per handle: config of its most recent successful configure
    steps,       \* number of driver calls made
    channels     \* the channels: bound timer, duty and output enable

vars ==
    <<chip, apb_clock, timers, regs, apb_clk_sel, last, lastOk, steps,
      channels>>

NoCall ==
    [op |-> "none", h |-> 0, config |-> None, result |-> "none",
     panic |-> "none", pre |-> None, preOk |-> None, calc |-> <<>>, trace |-> <<>>]

Init ==
    /\ chip \in Chips
    /\ apb_clock \in SourceFreqs
    /\ timers = <<>>
    /\ regs = [k \in RegKeys(chip) |-> ResetConf]
    /\ apb_clk_sel = FALSE
    /\ last = NoCall
    /\ lastOk = <<>>
    /\ steps = 0
    /\ channels = [n \in ChannelNumbers |-> ResetChannel]

\* a panic ends the program; MaxSteps bounds the run
Running == last.result # "Panic" /\ steps < MaxSteps

\* LEDC::get_timer
GetTimer ==
    /\ Running
    /\ Len(timers) < MaxHandles
    /\ \E speed \in Speeds(chip), number \in Numbers :
        /\ timers' = Append(timers, new(speed, number))
        /\ lastOk' = Append(lastOk, None)
        /\ last' = [NoCall EXCEPT !.op = "get_timer", !.h = Len(timers) + 1,
                                  !.result = "Ok"]
    /\ steps' = steps + 1
    /\ UNCHANGED <<chip, apb_clock, regs, apb_clk_sel, channels>>

\* Timer::configure on handle h
Configure ==
    /\ Running
    /\ \E h \in DOMAIN timers, duty \in Duties, frequency \in Freqs :
       \E cs \in ClockSources(timers[h].speed) :
        LET config == [duty |-> duty, clock_source |-> cs,
                       frequency |-> frequency]
            r == configure(chip, timers[h], apb_clock, config)
        IN /\ timers' = [timers EXCEPT ![h] = r.timer]
           /\ regs' = ApplyWrites(regs, r.trace)
           /\ lastOk' = IF r.result = "Ok"
                        THEN [lastOk EXCEPT ![h] = Some(config)]
                        ELSE lastOk
           /\ last' = [op |-> "configure", h |-> h, config |-> Some(config),
                       result |-> r.result, panic |-> r.panic,
                       pre |-> Some(timers[h]),
                       preOk |-> lastOk[h],
                       calc |-> r.calc, trace |-> r.trace]
    /\ steps' = steps + 1
    /\ UNCHANGED <<chip, apb_clock, apb_clk_sel, channels>>

\* LEDC::set_global_slow_clock (ledc.conf variant): select APB, then set
\* para_up of low-speed timer 0
SetGlobalSlowClock ==
    /\ Running
    /\ apb_clk_sel' = TRUE
    /\ regs' = Write(regs, ParaUp(<<"LowSpeed", 0>>))
    /\ last' = [NoCall EXCEPT !.op = "set_global_slow_clock", !.result = "Ok",
                              !.trace = <<ParaUp(<<"LowSpeed", 0>>)>>]
    /\ steps' = steps + 1
    /\ UNCHANGED <<chip, apb_clock, timers, lastOk, channels>>

\* Channel::configure of channel n bound to handle h
ChannelConfigure ==
    /\ Running
    /\ \E n \in ChannelNumbers, h \in DOMAIN timers, dv \in DutyValues :
        LET r == channel_configure(channels[n], n, timers[h], h, dv)
        IN /\ channels' = [channels EXCEPT ![n] = r.channel]
           /\ last' = [NoCall EXCEPT !.op = "channel_configure", !.h = h,
                                     !.result = r.result,
                                     !.pre = Some(timers[h]),
                                     !.trace = r.trace]
    /\ steps' = steps + 1
    /\ UNCHANGED <<chip, apb_clock, timers, regs, apb_clk_sel, lastOk>>

Next == GetTimer \/ Configure \/ SetGlobalSlowClock \/ ChannelConfigure

Spec == Init /\ [][Next]_vars

\* the same driver on a source clock at the edge of the divider range
InitBoundary ==
    /\ chip \in Chips
    /\ apb_clock \in BoundaryFreqs
    /\ timers = <<>>
    /\ regs = [k \in RegKeys(chip) |-> ResetConf]
    /\ apb_clk_sel = FALSE
    /\ last = NoCall
    /\ lastOk = <<>>
    /\ steps = 0
    /\ channels = [n \in ChannelNumbers |-> ResetChannel]

SpecBoundary == InitBoundary /\ [][Next]_vars

\* ----------------------------------------------------------- properties
\* the last call was a configure that returned (Ok or Err)
Returned == last.op = "configure" /\ last.result \in {"Ok", "Err"}
Failed == last.op = "configure" /\ last.result = "Err"
Succeeded == last.op = "configure" /\ last.result = "Ok"

Cfg == Unwrap(last.config)   \* the config passed to the last configure
Pre == Unwrap(last.pre)      \* its Timer before the call
Post == timers[last.h]       \* its Timer after the call
Primary == last.calc[1].divisor
Final == last.calc[Len(last.calc)].divisor

\* 256 <= d < 0x3FFFF
InRange(d) == d.hi = 0 /\ 256 <= d.lo /\ d.lo < 262143
\* d > 0x3FFFF
AboveMax(d) == d.hi > 0 \/ d.lo > 262143

RegWrites(trace) ==
    SelectSeq(trace, LAMBDA w : w.kind \in {"conf", "para_up"})

\* C1: a configure that fails with Error::Divisor leaves duty, clock_source,
\* frequency, use_ref_tick and configured of its Timer as they were before
\* the call.
C1_FailedConfigureKeepsState ==
    Failed =>
        /\ Post.duty = Pre.duty
        /\ Post.clock_source = Pre.clock_source
        /\ Post.frequency = Pre.frequency
        /\ Post.use_ref_tick = Pre.use_ref_tick
        /\ Post.configured = Pre.configured

\* C2: get_frequency() of every handle is the frequency of its most recent
\* successful configure, and 0 while none has succeeded.
C2_FrequencyOfLastSuccess ==
    last.result # "Panic" =>
        \A h \in DOMAIN timers :
            get_frequency(timers[h]) =
                IF lastOk[h] = None THEN 0 ELSE Unwrap(lastOk[h]).frequency

\* C3: a configure whose primary-path divisor lies in [256, 0x3FFFF) returns
\* Ok, leaves is_configured() true and get_frequency() equal to the target
\* frequency.
C3_PrimaryInRangeSucceeds ==
    (Returned /\ InRange(Primary)) =>
        /\ last.result = "Ok"
        /\ is_configured(Post)
        /\ get_frequency(Post) = Cfg.frequency

C3_Witness ==
    /\ Succeeded
    /\ InRange(Primary)
    /\ Cfg.frequency > 0
    /\ get_frequency(Post) = Cfg.frequency

\* C4: when the primary-path divisor exceeds 0x3FFFF the divisor is computed
\* exactly once more, from 1,000,000 Hz whatever the clock source, and
\* use_ref_tick is true afterwards; otherwise the call computes the divisor
\* once only, from the source clock.
C4_FallbackActivation ==
    Returned =>
        /\ last.calc[1].src = apb_clock
        /\ IF AboveMax(Primary)
           THEN /\ Len(last.calc) = 2
                /\ last.calc[2].src = 1000000
                /\ last.calc[2].divisor =
                       Divisor(1000000, Cfg.frequency, Pow2(Cfg.duty))
                /\ Post.use_ref_tick
           ELSE Len(last.calc) = 1

C4_Witness ==
    /\ Returned
    /\ AboveMax(Primary)
    /\ Len(last.calc) = 2
    /\ ~Pre.use_ref_tick
    /\ Post.use_ref_tick

\* C5: every divisor handed to configure_hw is the call's final divisor
\* unchanged by the cast to u32 and satisfies 256 <= divisor < 0x3FFFF, so
\* the 18-bit field holds it; and every call whose final divisor is < 256
\* or >= 0x3FFFF returns Error::Divisor.
C5_AppliedDivisorRange ==
    Returned =>
        /\ \A i \in DOMAIN last.trace :
            last.trace[i].kind = "conf" =>
                /\ InRange(last.trace[i].arg)
                /\ last.trace[i].arg = Final
                /\ last.trace[i].div = Final.lo
                /\ regs[last.trace[i].reg].div = Final.lo
        /\ ~InRange(Final) => last.result = "Err"

C5_Witness ==
    /\ Succeeded
    /\ Len(last.calc) = 2
    /\ \E i \in DOMAIN last.trace :
        last.trace[i].kind = "conf" /\ InRange(last.trace[i].arg)

C5_WitnessRejected == Failed /\ Final.hi = 0 /\ Final.lo < 256

\* C6: a configure that returns Error::Divisor issues no register write
\* (neither the configuration write nor the latch write), and every timer
\* configuration register keeps the value it had before the call.
C6_FailedConfigureWritesNothing ==
    [][(last'.op = "configure" /\ last'.result = "Err") =>
            /\ RegWrites(last'.trace) = <<>>
            /\ regs' = regs]_vars

\* a failed configure on a timer whose register holds an earlier configuration
C6_Witness ==
    /\ Failed
    /\ Pre.configured
    /\ regs[RegOf(Post)].div >= 256
    /\ ~regs[RegOf(Post)].rst

\* C7: in every state reached through new and returning configure calls,
\* configured implies duty set, clock_source set and frequency > 0.
C7_ConfiguredImpliesFieldsSet ==
    last.result # "Panic" =>
        \A h \in DOMAIN timers :
            timers[h].configured =>
                /\ timers[h].duty # None
                /\ timers[h].clock_source # None
                /\ timers[h].frequency > 0

\* a configured timer after a later failing configure
C7_Witness ==
    /\ Failed
    /\ Pre.configured
    /\ Post.configured
    /\ Post.frequency # Pre.frequency

\* C8: a new Timer has is_configured() false; is_configured() turns true
\* only in a configure call on that Timer that returns Ok; once true it
\* stays true.
C8_ConfigurationStateMachine ==
    [][/\ \A h \in DOMAIN timers' :
            h \notin DOMAIN timers => ~is_configured(timers'[h])
       /\ \A h \in DOMAIN timers :
            /\ (~is_configured(timers[h]) /\ is_configured(timers'[h])) =>
                   (last'.op = "configure" /\ last'.h = h
                        /\ last'.result = "Ok")
            /\ (last'.op = "configure" /\ last'.h = h
                    /\ last'.result = "Err" /\ ~is_configured(timers[h])) =>
                   ~is_configured(timers'[h])
            /\ is_configured(timers[h]) => is_configured(timers'[h])]_vars

\* a configured timer stays configured through a failing configure
C8_Witness ==
    /\ Failed
    /\ is_configured(Pre)
    /\ is_configured(Post)
    /\ Post.duty # Pre.duty

C8_WitnessStaysUnconfigured ==
    Failed /\ ~is_configured(Pre) /\ ~is_configured(Post)

\* C9: after a successful configure get_frequency() and get_duty() return
\* that call's frequency and duty resolution, and the timer's configuration
\* register holds the divisor and duty resolution computed by that call,
\* whatever an earlier successful configure had stored.
C9_OverwriteOnReconfigure ==
    Succeeded =>
        /\ get_frequency(Post) = Cfg.frequency
        /\ get_duty(Post) = Some(Cfg.duty)
        /\ regs[RegOf(Post)].div = Final.lo
        /\ regs[RegOf(Post)].duty_res = Cfg.duty

\* the second of two successful configures with different parameters
C9_Witness ==
    /\ Succeeded
    /\ last.preOk # None
    /\ Unwrap(last.preOk).frequency # Cfg.frequency
    /\ Unwrap(last.preOk).duty # Cfg.duty
    /\ get_frequency(Pre) = Unwrap(last.preOk).frequency
    /\ get_frequency(Post) = Cfg.frequency
    /\ regs[RegOf(Post)].div = Final.lo

\* the configuration write of timer t: tick select, divisor and duty
\* resolution written, reset and pause cleared
IsConfWrite(w, t) ==
    /\ w.kind = "conf"
    /\ w.reg = RegOf(t)
    /\ w.div = Final.lo
    /\ w.duty_res = Cfg.duty

\* C10 as stated: every successful configure, in either speed domain, issues
\* the configuration write, then a separate para_up write for the same
\* timer, then marks the timer configured.
C10_WriteThenLatchBothDomains ==
    Succeeded =>
        /\ Len(last.trace) = 3
        /\ IsConfWrite(last.trace[1], Post)
        /\ last.trace[2].kind = "para_up"
        /\ last.trace[2].reg = RegOf(Post)
        /\ last.trace[3].kind = "configured"

\* C10 amended: a successful configure of a low-speed timer issues the
\* configuration write, then the para_up write for the same timer, then
\* marks the timer configured; a successful configure of a high-speed timer
\* issues the configuration write only and then marks the timer configured;
\* configure never issues a para_up write that does not directly follow the
\* configuration write of the same timer.
C10_WriteThenLatch ==
    /\ Succeeded =>
        /\ IsConfWrite(last.trace[1], Post)
        /\ ~regs[RegOf(Post)].rst /\ ~regs[RegOf(Post)].pause
        /\ last.trace[Len(last.trace)].kind = "configured"
        /\ IF Post.speed = "LowSpeed"
           THEN /\ Len(last.trace) = 3
                /\ last.trace[2].kind = "para_up"
                /\ last.trace[2].reg = RegOf(Post)
                /\ regs[RegOf(Post)].para_up
           ELSE Len(last.trace) = 2
    /\ last.op = "configure" =>
        \A i \in DOMAIN last.trace :
            last.trace[i].kind = "para_up" =>
                /\ i > 1
                /\ last.trace[i - 1].kind = "conf"
                /\ last.trace[i - 1].reg = last.trace[i].reg

C10_Witness ==
    /\ Succeeded
    /\ Post.speed = "LowSpeed"
    /\ Len(last.trace) = 3
    /\ regs[RegOf(Post)].para_up

C10_WitnessHighSpeed ==
    Succeeded /\ Post.speed = "HighSpeed" /\ Len(last.trace) = 2

\* C11: get_freq(clocks) is none on every handle whose is_configured() is
\* false, also after a failed configure, and is the source-clock frequency
\* on every configured handle.
C11_GetFreqNoneUnlessConfigured ==
    last.result # "Panic" =>
        \A h \in DOMAIN timers :
            get_freq(timers[h], apb_clock) =
                IF is_configured(timers[h]) THEN Some(apb_clock) ELSE None

\* C13: after a successful configure use_ref_tick is true exactly when that
\* call took the 1,000,000 Hz fallback path.
C13_RefTickFromThisCallOnly ==
    Succeeded => (Post.use_ref_tick <=> Len(last.calc) = 2)

\* C14: in every successful configure, in either speed domain, the tick_sel
\* bit of the configuration write selects the 1,000,000 Hz reference tick
\* exactly when the divisor of that write was computed from 1,000,000 Hz.
C14_TickSelectMatchesDivisor ==
    Succeeded =>
        \A i \in DOMAIN last.trace :
            last.trace[i].kind = "conf" =>
                (SelectsRefTick(chip, Post.speed, last.trace[i].tick_sel)
                    <=> last.calc[Len(last.calc)].src = REF_TICK_HZ)

\* C19: the unchecked accesses of configure never fail: no configure call
\* panics in the unwrap of get_freq(clocks) or in the unwrap of self.duty in
\* configure_hw, since clock_source and duty are set from the start of
\* every call, whatever the Timer held before.
C19_UnwrapsNeverFail ==
    last.op = "configure" =>
        /\ last.panic \notin {"clock_source", "duty"}
        /\ Post.clock_source # None
        /\ Post.duty # None
        /\ get_freq(Post, apb_clock) # None

\* a never-configured Timer passes both unwraps and reaches configure_hw
C19_Witness ==
    /\ Succeeded
    /\ Pre.clock_source = None
    /\ Pre.duty = None
    /\ \E i \in DOMAIN last.trace : last.trace[i].kind = "conf"

\* floor(floor(F * 256 / f) / 2^bits) in plain integers, for results below
\* 2^31: with F = q * f + r, floor(F * 256 / f) = q * 256 + floor(r * 256 / f),
\* whose last term is below 256.
MathDivisor(F, f, bits) ==
    LET q == F \div f
        t == ((F % f) * 256) \div f
    IN IF bits <= 8
       THEN q * Pow2(8 - bits) + t \div Pow2(bits)
       ELSE q \div Pow2(bits - 8)

\* C15: the divisor a successful configure writes to hardware is
\* floor(floor((F << 8) / frequency) / 2^duty), F the source-clock frequency
\* on the primary path and 1,000,000 on the fallback path; F << 8 stays
\* below 2^64.  80 MHz, 5 bits, 24,000 Hz gives 26,666; 80 MHz, 5 bits,
\* 1,000 Hz gives 8,000 through the fallback.
C15_DivisorFormula ==
    Succeeded =>
        LET F == IF Len(last.calc) = 2 THEN 1000000 ELSE apb_clock
            W == last.trace[1]
        IN /\ W.kind = "conf"
           /\ W.arg.hi = 0
           /\ W.arg.lo = MathDivisor(F, Cfg.frequency, Cfg.duty)
           /\ W.div = MathDivisor(F, Cfg.frequency, Cfg.duty)
           /\ regs[W.reg].div = MathDivisor(F, Cfg.frequency, Cfg.duty)
           /\ F = last.calc[Len(last.calc)].src
           /\ Shl8(AsU64(F)).hi < 1024
           /\ (apb_clock = 80000000 /\ Cfg.duty = 5 /\ Cfg.frequency = 24000)
                  => (Len(last.calc) = 1 /\ W.div = 26666)
           /\ (apb_clock = 80000000 /\ Cfg.duty = 5 /\ Cfg.frequency = 1000)
                  => (Len(last.calc) = 2 /\ W.div = 8000)

\* 80 MHz, 5 bits, 1,000 Hz: 8,000 written after the fallback
C15_Witness ==
    /\ Succeeded
    /\ apb_clock = 80000000
    /\ Cfg.duty = 5
    /\ Cfg.frequency = 1000
    /\ Primary = AsU64(640000)
    /\ regs[RegOf(Post)].div = 8000

\* 80 MHz, 5 bits, 24,000 Hz: 26,666 written from the primary path
C15_WitnessPrimary ==
    /\ Succeeded
    /\ apb_clock = 80000000
    /\ Cfg.duty = 5
    /\ Cfg.frequency = 24000
    /\ regs[RegOf(Post)].div = 26666

\* C16: a primary-path divisor of exactly 0x3FFFF is not retried (the
\* retry test is >) and the call returns Error::Divisor (the range test is
\* >=); a final divisor of exactly 0x3FFFF, primary or fallback, is always
\* rejected.
C16_BoundaryAtDivisorMax ==
    Returned =>
        /\ Primary = AsU64(262143) =>
              /\ Len(last.calc) = 1
              /\ last.result = "Err"
              /\ Post.use_ref_tick = Pre.use_ref_tick
              /\ last.trace = <<>>
        /\ Final = AsU64(262143) => last.result = "Err"

\* 262,143 Hz, 5 bits, 8 Hz: the primary divisor is 0x3FFFF
C16_Witness ==
    /\ Failed
    /\ apb_clock = 262143
    /\ Cfg.duty = 5
    /\ Cfg.frequency = 8
    /\ Primary = AsU64(262143)
    /\ Len(last.calc) = 1

\* C17: get_timer returns a handle with configured false, frequency 0, duty
\* none, clock source none and use_ref_tick false, writes no register and
\* leaves the handles issued before as they are, however they were
\* configured; a configure on one handle leaves every other handle as it
\* is, also one with the same speed and number.
C17_FreshIndependentHandles ==
    [][/\ last'.op = "get_timer" =>
            /\ Len(timers') = Len(timers) + 1
            /\ ~timers'[Len(timers')].configured
            /\ timers'[Len(timers')].frequency = 0
            /\ timers'[Len(timers')].duty = None
            /\ timers'[Len(timers')].clock_source = None
            /\ ~timers'[Len(timers')].use_ref_tick
            /\ last'.trace = <<>>
            /\ regs' = regs
            /\ \A h \in DOMAIN timers : timers'[h] = timers[h]
       /\ last'.op = "configure" =>
            \A h \in DOMAIN timers : h # last'.h => timers'[h] = timers[h]]_vars

\* a second handle for a timer whose first handle is already configured
C17_Witness ==
    /\ last.op = "get_timer"
    /\ last.h = 2
    /\ timers[1].speed = timers[2].speed
    /\ timers[1].number = timers[2].number
    /\ timers[1].configured
    /\ ~timers[2].configured
    /\ timers[2].frequency = 0

\* configuring one of two handles of the same timer
C17_WitnessConfigure ==
    /\ Succeeded
    /\ Len(timers) = 2
    /\ timers[1].speed = timers[2].speed
    /\ timers[1].number = timers[2].number
    /\ \E h \in DOMAIN timers : h # last.h /\ ~timers[h].configured

\* C18: a configure on a Timer with number n writes only the configuration
\* register of timer n of that Timer's speed domain (the field write and
\* the latch write both); every other timer configuration register keeps
\* its value.
C18_RegisterIsolation ==
    [][last'.op = "configure" =>
          LET own == <<timers[last'.h].speed, timers[last'.h].number>>
          IN /\ \A i \in DOMAIN last'.trace : last'.trace[i].reg = own
             /\ \A k \in DOMAIN regs : k # own => regs'[k] = regs[k]
             /\ last'.result = "Ok" => regs'[own].div = last'.trace[1].div]_vars

\* timer 1 configured while low-speed timer 0 keeps its latched para_up
C18_Witness ==
    /\ Succeeded
    /\ Post.number = 1
    /\ ~regs[<<Post.speed, 1>>].rst
    /\ regs[<<"LowSpeed", 0>>].para_up
    /\ regs[<<"LowSpeed", 0>>].rst
    /\ \A k \in DOMAIN regs :
          k \notin {<<Post.speed, 1>>, <<"LowSpeed", 0>>} => regs[k] = ResetConf

C12_WitnessBound ==
    /\ last.op = "channel_configure"
    /\ last.result = "Ok"
    /\ Post.configured
    /\ \E n \in ChannelNumbers : channels[n].out_en

====
